---- MODULE Spec2Model ----
(***************************************************************************)
(* Model of scripts/coverage_report_jenkins.py: selection of the Jenkins   *)
(* builds that carry coverage data for the appliance's version, and the    *)
(* remote orchestration (download, extract, merge, package, scan).         *)
(*                                                                         *)
(* Strings whose characters matter (version strings, artifact contents)    *)
(* are sequences of one-character strings.  The CI server, the appliance   *)
(* and the SSH layer are the environment: each of their answers is chosen  *)
(* nondeterministically when the program asks.                             *)
(***************************************************************************)
EXTENDS Integers, Sequences, FiniteSets, TLC

\* ------------------------------------------------------------------------
\* Bounds of the model
\* ------------------------------------------------------------------------
MaxBuilds == 2
MaxLen == 4
MinStatus == 200
MaxStatus == 599

\* ------------------------------------------------------------------------
\* Characters and strings
\* ------------------------------------------------------------------------
Digits == {"0", "1", "2", "3", "4", "5", "6", "7", "8", "9"}

Whitespace == {" ", "\n", "\t"}

DigitVal(c) ==
    CASE c = "0" -> 0 [] c = "1" -> 1 [] c = "2" -> 2 [] c = "3" -> 3
      [] c = "4" -> 4 [] c = "5" -> 5 [] c = "6" -> 6 [] c = "7" -> 7
      [] c = "8" -> 8 [] c = "9" -> 9

RECURSIVE LStrip(_)
LStrip(s) ==
    IF s # <<>> /\ Head(s) \in Whitespace THEN LStrip(Tail(s)) ELSE s

RECURSIVE RStrip(_)
RStrip(s) ==
    IF s # <<>> /\ s[Len(s)] \in Whitespace
    THEN RStrip(SubSeq(s, 1, Len(s) - 1))
    ELSE s

\* str.strip()
Strip(s) == RStrip(LStrip(s))

\* Length of the longest prefix of s made of digits: what a greedy \d+ eats.
RECURSIVE DigitRun(_)
DigitRun(s) ==
    IF s # <<>> /\ Head(s) \in Digits THEN 1 + DigitRun(Tail(s)) ELSE 0

\* ------------------------------------------------------------------------
\* cfme.utils.version.Version: dotted numeric components, compared
\* component by component, a proper prefix being the smaller one.
\* ------------------------------------------------------------------------
RECURSIVE SplitDots(_, _)
SplitDots(s, cur) ==
    IF s = <<>> THEN <<cur>>
    ELSE IF Head(s) = "." THEN <<cur>> \o SplitDots(Tail(s), <<>>)
    ELSE SplitDots(Tail(s), Append(cur, Head(s)))

RECURSIVE ToNumber(_, _)
ToNumber(s, acc) ==
    IF s = <<>> THEN acc ELSE ToNumber(Tail(s), 10 * acc + DigitVal(Head(s)))

Version(s) ==
    LET parts == SplitDots(s, <<>>)
    IN  [i \in 1..Len(parts) |-> ToNumber(parts[i], 0)]

RECURSIVE VersionLT(_, _)
VersionLT(a, b) ==
    IF b = <<>> THEN FALSE
    ELSE IF a = <<>> THEN TRUE
    ELSE IF Head(a) # Head(b) THEN Head(a) < Head(b)
    ELSE VersionLT(Tail(a), Tail(b))

\* ------------------------------------------------------------------------
\* Pure helpers of the script
\* ------------------------------------------------------------------------
\* group_list_dict_by(ld, 'fileName'): a later entry overwrites an earlier
\* one with the same file name.
group_list_dict_by(ld) ==
    [n \in {ld[i].fileName : i \in 1..Len(ld)} |->
        ld[CHOOSE i \in 1..Len(ld) :
              /\ ld[i].fileName = n
              /\ \A j \in 1..Len(ld) : ld[j].fileName = n => j <= i]]

\* jenkins_artifact_url: {url}/job/{job}/{build}/artifact/{path}, with the
\* credentials put in front of the host.
jenkins_artifact_url(user, token, url, job, build, path) ==
    [netloc |-> <<user, ":", token, "@", url>>,
     path   |-> <<"job", job, build, "artifact", path>>]

\* check_artifact: the status code of the HEAD request, compared with 300.
CheckArtifactBelow400(status) == status < 400

check_artifact(status) == status < 300

\* gen_project_key: re.search('^(?P<major>\d+)\.(?P<minor>\d+)', version).
\* The result is [raised |-> TRUE] or the key as a sequence of pieces.
KeyRaised == [raised |-> TRUE, key |-> <<>>]

GenKeyOneDigitMinor(name, version) ==
    LET ma == DigitRun(version)
        rest == SubSeq(version, ma + 2, Len(version))
    IN  IF ma = 0 \/ Len(version) < ma + 1 \/ version[ma + 1] # "."
           \/ DigitRun(rest) = 0
        THEN KeyRaised
        ELSE [raised |-> FALSE,
              key |-> name \o <<"_">> \o SubSeq(version, 1, ma) \o <<"_">>
                      \o SubSeq(rest, 1, 1) \o <<"_ruby_coverage">>]

gen_project_key(name, version) ==
    LET ma == DigitRun(version)
        rest == SubSeq(version, ma + 2, Len(version))
        mi == DigitRun(rest)
    IN  IF ma = 0 \/ Len(version) < ma + 1 \/ version[ma + 1] # "." \/ mi = 0
        THEN KeyRaised
        ELSE [raised |-> FALSE,
              key |-> name \o <<"_">> \o SubSeq(version, 1, ma) \o <<"_">>
                      \o SubSeq(rest, 1, mi) \o <<"_ruby_coverage">>]

\* sorted(eligible_build_numbers)
RECURSIVE SortedDescending(_)
SortedDescending(S) ==
    IF S = {} THEN <<>>
    ELSE LET m == CHOOSE x \in S : \A y \in S : y <= x
         IN  <<m>> \o SortedDescending(S \ {m})

RECURSIVE sorted(_)
sorted(S) ==
    IF S = {} THEN <<>>
    ELSE LET m == CHOOSE x \in S : \A y \in S : x <= y
         IN  <<m>> \o sorted(S \ {m})

\* ------------------------------------------------------------------------
\* Inputs and the answers of the environment
\* ------------------------------------------------------------------------
JenkinsUrl == "jenkins.example.com"
JobName == "job"
CliUser == "cli-user"
CliToken == "cli-token"
ConfUser == "conf-user"
ConfToken == "conf-token"
NotGiven == ""

\* str(appliance.version) before .strip()
ApplianceVersions ==
    { <<"5", ".", "9">>, <<"5", ".", "1", "0", "\n">> }

\* Contents of a build's appliance_version artifact
VersionContents ==
    { <<"\n">>,
      <<"5", ".", "8">>,
      <<"5", ".", "9", "\n">>,
      <<"5", ".", "1", "0">> }

AV == [fileName |-> "appliance_version", relativePath |-> "appliance_version"]
COV1 == [fileName |-> "coverage-results.tgz",
         relativePath |-> "coverage-results.tgz"]
COV2 == [fileName |-> "coverage-results.tgz",
         relativePath |-> "log/coverage-results.tgz"]

\* Values of the 'artifacts' entry of a build info
ArtifactLists ==
    { <<>>, <<AV>>, <<COV1>>, <<AV, COV1>>, <<AV, COV2>>, <<AV, COV1, COV2>> }

\* Status codes answered to the HEAD request during a run of main
RunStatusCodes == {200, 404}

\* ------------------------------------------------------------------------
\* State
\* ------------------------------------------------------------------------
VARIABLES
    pc,                      \* position of the running function
    err,                     \* kind of the exception that ended the run
    jenkins_user,            \* main's parameters, reassigned from the conf
    jenkins_token,
    appliance_raw,           \* str(appliance.version)
    appliance_version,       \* main's local, the stripped version
    build_numbers,           \* list returned by get_build_numbers
    idx,                     \* position of the selection loop
    artifacts,               \* main's local 'artifacts'
    build_appliance_version, \* main's local
    eligible_build_numbers,  \* the set built by the selection loop
    sorted_builds,           \* eligible_build_numbers after sorted()
    dl_idx,                  \* position of the download loop
    http_log,                \* CI queries issued so far, with their answers
    remote_log,              \* appliance-side and local steps issued so far
    in_name,                 \* gen_project_key / check_artifact call: inputs
    in_version,
    in_status,
    out_key,                 \* ... and results
    out_exists

vars == <<pc, err, jenkins_user, jenkins_token, appliance_raw,
          appliance_version, build_numbers, idx, artifacts,
          build_appliance_version, eligible_build_numbers, sorted_builds,
          dl_idx, http_log, remote_log, in_name, in_version, in_status,
          out_key, out_exists>>

selection_vars == <<idx, artifacts, build_appliance_version,
                    eligible_build_numbers>>

call_vars == <<in_name, in_version, in_status, out_key, out_exists>>

Unbound == [kind |-> "unbound", list |-> <<>>, dict |-> <<>>]
AsList(l) == [kind |-> "list", list |-> l, dict |-> <<>>]
AsDict(d) == [kind |-> "dict", list |-> <<>>, dict |-> d]

NoKey == [raised |-> FALSE, key |-> <<>>]

Init ==
    /\ pc = "start"
    /\ err = "none"
    /\ jenkins_user \in {NotGiven, CliUser}
    /\ jenkins_token \in {NotGiven, CliToken}
    /\ appliance_raw \in ApplianceVersions
    /\ appliance_version = <<>>
    /\ build_numbers = <<>>
    /\ idx = 0
    /\ artifacts = Unbound
    /\ build_appliance_version = <<>>
    /\ eligible_build_numbers = {}
    /\ sorted_builds = <<>>
    /\ dl_idx = 0
    /\ http_log = <<>>
    /\ remote_log = <<>>
    /\ in_name = <<>>
    /\ in_version = <<>>
    /\ in_status = 0
    /\ out_key = NoKey
    /\ out_exists = FALSE

\* An exception leaves main: nothing else of the run is executed.
Raise(kind) ==
    /\ pc' = "raised"
    /\ err' = kind

HttpEntry(op, build) ==
    [op |-> op, build |-> build, raised |-> FALSE, has_key |-> FALSE,
     artifacts |-> <<>>, content |-> <<>>, status |-> 0, result |-> FALSE]

\* ------------------------------------------------------------------------
\* main, lines 381-395: credentials, target version, build list
\* ------------------------------------------------------------------------
CredentialsMissing(user, token) == user = NotGiven \/ token = NotGiven

ResolveCredentials ==
    /\ pc = "start"
    /\ IF CredentialsMissing(jenkins_user, jenkins_token)
       THEN \E conf_has_jenkins_app \in BOOLEAN :
               IF conf_has_jenkins_app
               THEN /\ jenkins_user' = ConfUser
                    /\ jenkins_token' = ConfToken
                    /\ appliance_version' = Strip(appliance_raw)
                    /\ pc' = "get_job_info"
                    /\ err' = err
               ELSE /\ Raise("credential-missing")
                    /\ UNCHANGED <<jenkins_user, jenkins_token,
                                   appliance_version>>
       ELSE /\ appliance_version' = Strip(appliance_raw)
            /\ pc' = "get_job_info"
            /\ UNCHANGED <<jenkins_user, jenkins_token, err>>
    /\ UNCHANGED <<appliance_raw, build_numbers, selection_vars,
                   sorted_builds, dl_idx, http_log, remote_log, call_vars>>

\* Jenkins numbers the builds of a job 1, 2, ... and lists the newest first.
BuildLists == { [i \in 1..n |-> n + 1 - i] : n \in 0..MaxBuilds }

GetBuildNumbers ==
    /\ pc = "get_job_info"
    /\ \/ /\ Raise("http-failed")
          /\ http_log' = Append(http_log,
                 [HttpEntry("get_job_info", 0) EXCEPT !.raised = TRUE])
          /\ UNCHANGED <<build_numbers, idx>>
       \/ \E bl \in BuildLists :
             /\ build_numbers' = bl
             /\ http_log' = Append(http_log, HttpEntry("get_job_info", 0))
             /\ IF bl = <<>>
                THEN Raise("no-builds") /\ idx' = idx
                ELSE pc' = "get_build_info" /\ idx' = 1 /\ err' = err
    /\ UNCHANGED <<jenkins_user, jenkins_token, appliance_raw,
                   appliance_version, artifacts, build_appliance_version,
                   eligible_build_numbers, sorted_builds, dl_idx, remote_log,
                   call_vars>>

\* ------------------------------------------------------------------------
\* main, lines 397-450: the selection loop
\* ------------------------------------------------------------------------
\* 'continue', and the loop's normal end
NextBuild ==
    /\ idx' = idx + 1
    /\ pc' = IF idx + 1 > Len(build_numbers) THEN "end_loop"
             ELSE "get_build_info"
    /\ err' = err

\* Answers of client.get_build_info(job, build): a dictionary with or
\* without the key 'artifacts'.
BuildInfos ==
    {[has_key |-> FALSE, artifacts |-> <<>>]}
    \cup {[has_key |-> TRUE, artifacts |-> l] : l \in ArtifactLists}

\* lines 400-411
GetBuildInfo ==
    /\ pc = "get_build_info"
    /\ LET build_number == build_numbers[idx]
           entry == HttpEntry("get_build_info", build_number)
       IN  \/ /\ Raise("http-failed")
              /\ http_log' = Append(http_log, [entry EXCEPT !.raised = TRUE])
              /\ UNCHANGED <<idx, artifacts>>
           \/ \E info \in BuildInfos :
                 /\ http_log' = Append(http_log,
                        [entry EXCEPT !.has_key = info.has_key,
                                      !.artifacts = info.artifacts])
                 /\ IF ~info.has_key
                    THEN \* KeyError before the assignment
                         artifacts' = artifacts /\ NextBuild
                    ELSE IF info.artifacts = <<>>
                    THEN \* assigned, then ValueError
                         artifacts' = AsList(info.artifacts) /\ NextBuild
                    ELSE LET grouped == group_list_dict_by(info.artifacts)
                         IN  /\ artifacts' = AsDict(grouped)
                             /\ IF "appliance_version" \notin DOMAIN grouped
                                THEN NextBuild
                                ELSE /\ pc' = "download_artifact"
                                     /\ UNCHANGED <<idx, err>>
    /\ UNCHANGED <<jenkins_user, jenkins_token, appliance_raw,
                   appliance_version, build_numbers, build_appliance_version,
                   eligible_build_numbers, sorted_builds, dl_idx, remote_log,
                   call_vars>>

\* lines 417-429: what the loop does with the downloaded version
VersionOutcomeNoBreak(bav, av, grouped) ==
    IF bav = <<>> THEN "continue"
    ELSE IF "coverage-results.tgz" \notin DOMAIN grouped THEN "continue"
    ELSE "check"

VersionOutcomeBreakNoCoverage(bav, av, grouped) ==
    IF bav = <<>> THEN "continue"
    ELSE IF VersionLT(Version(bav), Version(av)) THEN "break"
    ELSE IF "coverage-results.tgz" \notin DOMAIN grouped THEN "break"
    ELSE "check"

VersionOutcome(bav, av, grouped) ==
    IF bav = <<>> THEN "continue"
    ELSE IF VersionLT(Version(bav), Version(av)) THEN "break"
    ELSE IF "coverage-results.tgz" \notin DOMAIN grouped THEN "continue"
    ELSE "check"

\* lines 413-429
DownloadArtifact ==
    /\ pc = "download_artifact"
    /\ LET build_number == build_numbers[idx]
           entry == HttpEntry("download_artifact", build_number)
       IN  \/ /\ Raise("http-failed")
              /\ http_log' = Append(http_log, [entry EXCEPT !.raised = TRUE])
              /\ UNCHANGED <<idx, build_appliance_version>>
           \/ \E text \in VersionContents :
                 LET bav == Strip(text)
                     outcome == VersionOutcome(bav, appliance_version,
                                               artifacts.dict)
                 IN  /\ http_log' = Append(http_log,
                            [entry EXCEPT !.content = text])
                     /\ build_appliance_version' = bav
                     /\ CASE outcome = "continue" -> NextBuild
                          [] outcome = "break" ->
                               pc' = "end_loop" /\ UNCHANGED <<idx, err>>
                          [] outcome = "check" ->
                               pc' = "check_artifact" /\ UNCHANGED <<idx, err>>
    /\ UNCHANGED <<jenkins_user, jenkins_token, appliance_raw,
                   appliance_version, build_numbers, artifacts,
                   eligible_build_numbers, sorted_builds, dl_idx, remote_log,
                   call_vars>>

\* lines 431-444: the builds added to the set after check_artifact
AddAnyChecked(eligible, exists, bav, av, build_number) ==
    IF exists THEN eligible \cup {build_number} ELSE eligible

AddEligible(eligible, exists, bav, av, build_number) ==
    IF exists /\ bav = av THEN eligible \cup {build_number} ELSE eligible

\* lines 431-444
CheckArtifact ==
    /\ pc = "check_artifact"
    /\ LET build_number == build_numbers[idx]
           entry == HttpEntry("check_artifact", build_number)
       IN  \/ /\ Raise("http-failed")
              /\ http_log' = Append(http_log, [entry EXCEPT !.raised = TRUE])
              /\ UNCHANGED <<idx, eligible_build_numbers, in_status,
                             out_exists>>
           \/ \E status \in RunStatusCodes :
                 LET exists == check_artifact(status)
                 IN  /\ http_log' = Append(http_log,
                            [entry EXCEPT !.status = status,
                                          !.result = exists])
                     /\ in_status' = status
                     /\ out_exists' = exists
                     /\ eligible_build_numbers' =
                            AddEligible(eligible_build_numbers, exists,
                                        build_appliance_version,
                                        appliance_version, build_number)
                     /\ NextBuild
    /\ UNCHANGED <<jenkins_user, jenkins_token, appliance_raw,
                   appliance_version, build_numbers, artifacts,
                   build_appliance_version, sorted_builds, dl_idx,
                   remote_log, in_name, in_version, out_key>>

\* lines 446-450: where main goes after the loop
AfterLoopNeverRaises(eligible) == "evmserverd_stop"

AfterLoop(eligible) ==
    IF eligible = {} THEN "raised" ELSE "evmserverd_stop"

EndLoop ==
    /\ pc = "end_loop"
    /\ pc' = AfterLoop(eligible_build_numbers)
    /\ err' = IF pc' = "raised" THEN "no-eligible-builds" ELSE err
    /\ sorted_builds' = IF pc' = "raised" THEN sorted_builds
                        ELSE sorted(eligible_build_numbers)
    /\ UNCHANGED <<jenkins_user, jenkins_token, appliance_raw,
                   appliance_version, build_numbers, selection_vars, dl_idx,
                   http_log, remote_log, call_vars>>

\* ------------------------------------------------------------------------
\* main, lines 452-501: the appliance-side steps
\* ------------------------------------------------------------------------
NoUrl == [netloc |-> <<>>, path |-> <<>>]

RemoteEntry(op, build, url, failed) ==
    [op |-> op, build |-> build, url |-> url, failed |-> failed]

orchestration_frame ==
    <<jenkins_user, jenkins_token, appliance_raw, appliance_version,
      build_numbers, selection_vars, sorted_builds, http_log, in_status,
      out_exists>>

\* A call that either returns or raises (appliance methods, scp transfers,
\* subprocess.check_call).
RaisingCall(here, op, next) ==
    /\ pc = here
    /\ \E failed \in BOOLEAN :
          /\ remote_log' = Append(remote_log, RemoteEntry(op, 0, NoUrl, failed))
          /\ IF failed THEN Raise("call-raised")
             ELSE pc' = next /\ err' = err
    /\ UNCHANGED <<orchestration_frame, dl_idx, in_name, in_version, out_key>>

\* ssh.run_command / run_rails_command whose result is tested
\* ('if not result' or 'if cmd.failed') and followed by a raise.
CheckedCommand(here, op, next) ==
    /\ pc = here
    /\ \E failed \in BOOLEAN :
          /\ remote_log' = Append(remote_log, RemoteEntry(op, 0, NoUrl, failed))
          /\ IF failed THEN Raise("remote-command-failed")
             ELSE pc' = next /\ err' = err
    /\ UNCHANGED <<orchestration_frame, dl_idx, in_name, in_version, out_key>>

\* ssh.run_command whose result is dropped
UncheckedCommand(here, op, next) ==
    /\ pc = here
    /\ \E failed \in BOOLEAN :
          /\ remote_log' = Append(remote_log, RemoteEntry(op, 0, NoUrl, failed))
          /\ pc' = next
          /\ err' = err
    /\ UNCHANGED <<orchestration_frame, dl_idx, in_name, in_version, out_key>>

\* lines 452-460
EvmserverdStop ==
    RaisingCall("evmserverd_stop", "evmserverd_stop", "install_simplecov")

InstallSimplecov ==
    RaisingCall("install_simplecov", "install_simplecov",
                "upload_coverage_merger")

UploadCoverageMerger ==
    RaisingCall("upload_coverage_merger", "upload_coverage_merger", "mkdir")

\* lines 462-464, and the entry of the download loop
MkdirCoverageDir ==
    /\ pc = "mkdir"
    /\ \E failed \in BOOLEAN :
          /\ remote_log' = Append(remote_log,
                                  RemoteEntry("mkdir", 0, NoUrl, failed))
          /\ IF failed
             THEN Raise("remote-command-failed") /\ dl_idx' = dl_idx
             ELSE pc' = "curl" /\ dl_idx' = 1 /\ err' = err
    /\ UNCHANGED <<orchestration_frame, in_name, in_version, out_key>>

\* lines 467-476: the URL is built from the loop's build number and main's
\* local 'artifacts', then curl runs on the appliance.
DownloadCoverage ==
    /\ pc = "curl"
    /\ LET build_number == sorted_builds[dl_idx]
       IN  IF artifacts.kind # "dict"
           THEN Raise("TypeError") /\ remote_log' = remote_log
           ELSE IF "coverage-results.tgz" \notin DOMAIN artifacts.dict
           THEN Raise("KeyError") /\ remote_log' = remote_log
           ELSE LET download_url ==
                        jenkins_artifact_url(
                            jenkins_user, jenkins_token, JenkinsUrl, JobName,
                            build_number,
                            artifacts.dict["coverage-results.tgz"].relativePath)
                IN  \E failed \in BOOLEAN :
                       /\ remote_log' = Append(remote_log,
                              RemoteEntry("curl", build_number, download_url,
                                          failed))
                       /\ IF failed THEN Raise("remote-command-failed")
                          ELSE pc' = "extract" /\ err' = err
    /\ UNCHANGED <<orchestration_frame, dl_idx, in_name, in_version, out_key>>

\* lines 478-486, and the loop's step
ExtractCoverage ==
    /\ pc = "extract"
    /\ LET build_number == sorted_builds[dl_idx]
       IN  \E failed \in BOOLEAN :
              /\ remote_log' = Append(remote_log,
                     RemoteEntry("extract", build_number, NoUrl, failed))
              /\ IF failed
                 THEN Raise("remote-command-failed") /\ dl_idx' = dl_idx
                 ELSE /\ dl_idx' = dl_idx + 1
                      /\ pc' = IF dl_idx + 1 > Len(sorted_builds)
                               THEN "merger" ELSE "curl"
                      /\ err' = err
    /\ UNCHANGED <<orchestration_frame, in_name, in_version, out_key>>

\* merge_coverage_data, lines 187-191
RunMerger == CheckedCommand("merger", "coverage_merger", "ln")

\* merge_coverage_data, line 205
CreateSymlink == UncheckedCommand("ln", "ln", "tar")

\* pull_merged_coverage_data, lines 219-226
PackMerged == CheckedCommand("tar", "tar", "get_file")

GetMerged == RaisingCall("get_file", "get_file", "local_tar")

DecompressMerged == RaisingCall("local_tar", "local_tar", "scanner_mkdir")

\* install_sonar_scanner, lines 253-287
ScannerMkdir == CheckedCommand("scanner_mkdir", "scanner_mkdir", "scanner_wget")

ScannerWget == CheckedCommand("scanner_wget", "scanner_wget", "scanner_unzip")

ScannerUnzip == CheckedCommand("scanner_unzip", "scanner_unzip", "scanner_mv")

ScannerMv == CheckedCommand("scanner_mv", "scanner_mv", "scanner_conf")

ScannerConf == CheckedCommand("scanner_conf", "scanner_conf", "project_conf")

\* install_sonar_scanner, lines 308-327: the project key is generated from
\* str(appliance.version).strip(), then the configuration is copied.
ProjectConf ==
    /\ pc = "project_conf"
    /\ LET project_version == Strip(appliance_raw)
           project_key == gen_project_key(<<"CFME">>, project_version)
       IN  /\ in_name' = <<"CFME">>
           /\ in_version' = project_version
           /\ out_key' = project_key
           /\ IF project_key.raised
              THEN Raise("invalid-version") /\ remote_log' = remote_log
              ELSE \E failed \in BOOLEAN :
                      /\ remote_log' = Append(remote_log,
                             RemoteEntry("put_file", 0, NoUrl, failed))
                      /\ IF failed THEN Raise("call-raised")
                         ELSE pc' = "run_scanner" /\ err' = err
    /\ UNCHANGED <<orchestration_frame, dl_idx>>

\* run_sonar_scanner, lines 352-355
RunSonarScanner == CheckedCommand("run_scanner", "run_scanner", "done")

\* ------------------------------------------------------------------------
\* Specification of a run of main
\* ------------------------------------------------------------------------
Next ==
    \/ ResolveCredentials
    \/ GetBuildNumbers
    \/ GetBuildInfo
    \/ DownloadArtifact
    \/ CheckArtifact
    \/ EndLoop
    \/ EvmserverdStop
    \/ InstallSimplecov
    \/ UploadCoverageMerger
    \/ MkdirCoverageDir
    \/ DownloadCoverage
    \/ ExtractCoverage
    \/ RunMerger
    \/ CreateSymlink
    \/ PackMerged
    \/ GetMerged
    \/ DecompressMerged
    \/ ScannerMkdir
    \/ ScannerWget
    \/ ScannerUnzip
    \/ ScannerMv
    \/ ScannerConf
    \/ ProjectConf
    \/ RunSonarScanner

Spec == Init /\ [][Next]_vars

\* ------------------------------------------------------------------------
\* Specifications of single calls of the pure functions
\* ------------------------------------------------------------------------
MainIdle ==
    /\ err = "none"
    /\ jenkins_user = CliUser
    /\ jenkins_token = CliToken
    /\ appliance_raw = <<>>
    /\ appliance_version = <<>>
    /\ build_numbers = <<>>
    /\ idx = 0
    /\ artifacts = Unbound
    /\ build_appliance_version = <<>>
    /\ eligible_build_numbers = {}
    /\ sorted_builds = <<>>
    /\ dl_idx = 0
    /\ http_log = <<>>
    /\ remote_log = <<>>

main_vars == <<err, jenkins_user, jenkins_token, appliance_raw,
               appliance_version, build_numbers, selection_vars,
               sorted_builds, dl_idx, http_log, remote_log>>

KeyAlphabet == {"1", "5", ".", "a", " "}

Strings(n) == UNION {[1..k -> KeyAlphabet] : k \in 0..n}

\* The docstring's example version, 5.9.0.21
DocVersion == <<"5", ".", "9", ".", "0", ".", "2", "1">>

KeyVersions == Strings(MaxLen) \cup {DocVersion}

KeyNames == {<<"CFME">>, <<"MIQ">>}

InitKey ==
    /\ MainIdle
    /\ pc = "call_gen_project_key"
    /\ in_name \in KeyNames
    /\ in_version \in KeyVersions
    /\ in_status = 0
    /\ out_key = NoKey
    /\ out_exists = FALSE

GenProjectKeyCall ==
    /\ pc = "call_gen_project_key"
    /\ out_key' = gen_project_key(in_name, in_version)
    /\ pc' = "gen_project_key_returned"
    /\ UNCHANGED <<main_vars, in_name, in_version, in_status, out_exists>>

NextKey == GenProjectKeyCall

SpecKey == InitKey /\ [][NextKey]_vars

InitCheck ==
    /\ MainIdle
    /\ pc = "call_check_artifact"
    /\ in_name = <<>>
    /\ in_version = <<>>
    /\ in_status \in MinStatus..MaxStatus
    /\ out_key = NoKey
    /\ out_exists = FALSE

CheckArtifactCall ==
    /\ pc = "call_check_artifact"
    /\ out_exists' = check_artifact(in_status)
    /\ pc' = "check_artifact_returned"
    /\ UNCHANGED <<main_vars, in_name, in_version, in_status, out_key>>

NextCheck == CheckArtifactCall

SpecCheck == InitCheck /\ [][NextCheck]_vars

\* ------------------------------------------------------------------------
\* What the logs say about a build
\* ------------------------------------------------------------------------
SelectionPcs ==
    {"start", "get_job_info", "get_build_info", "download_artifact",
     "check_artifact"}

OrchestrationPcs ==
    {"evmserverd_stop", "install_simplecov", "upload_coverage_merger",
     "mkdir", "curl", "extract", "merger", "ln", "tar", "get_file",
     "local_tar", "scanner_mkdir", "scanner_wget", "scanner_unzip",
     "scanner_mv", "scanner_conf", "project_conf", "run_scanner", "done"}

\* The answers the CI server gave for build b
Answers(op, b) ==
    {i \in 1..Len(http_log) :
        /\ http_log[i].op = op
        /\ http_log[i].build = b
        /\ ~http_log[i].raised}

Visited(b) == Answers("get_build_info", b) # {}

HasArtifact(b, name) ==
    \E i \in Answers("get_build_info", b) :
        /\ http_log[i].has_key
        /\ \E k \in 1..Len(http_log[i].artifacts) :
              http_log[i].artifacts[k].fileName = name

DeclaresVersion(b, v) ==
    \E i \in Answers("download_artifact", b) : Strip(http_log[i].content) = v

ArtifactChecked(b) ==
    \E i \in Answers("check_artifact", b) : http_log[i].result

Position(b) == CHOOSE i \in 1..Len(build_numbers) : build_numbers[i] = b

BuildSet == {build_numbers[i] : i \in 1..Len(build_numbers)}

\* The selection loop has ended, by exhaustion or by its break.
LoopEnded ==
    \/ pc \in OrchestrationPcs
    \/ pc = "raised"
       /\ err \notin {"credential-missing", "http-failed", "no-builds"}

\* ------------------------------------------------------------------------
\* C1: the eligible set is exactly the set of visited builds that have an
\* appliance_version artifact whose stripped content equals the target
\* version, have a coverage-results.tgz artifact, and for which
\* check_artifact returned true.
\* ------------------------------------------------------------------------
C1_EligibleSet ==
    eligible_build_numbers =
        {b \in BuildSet :
            /\ Visited(b)
            /\ HasArtifact(b, "appliance_version")
            /\ DeclaresVersion(b, appliance_version)
            /\ HasArtifact(b, "coverage-results.tgz")
            /\ ArtifactChecked(b)}

\* One build is eligible, another one declares the target version but has
\* no coverage archive.
C1_Witness ==
    /\ LoopEnded
    /\ Cardinality(eligible_build_numbers) = 1
    /\ \E b \in BuildSet :
          /\ DeclaresVersion(b, appliance_version)
          /\ ~HasArtifact(b, "coverage-results.tgz")
          /\ b \notin eligible_build_numbers

\* ------------------------------------------------------------------------
\* C2: once a build declares a version strictly lower than the target, the
\* loop has stopped: that download is the last CI query of the run, and no
\* build listed after it is queried or eligible.
\* ------------------------------------------------------------------------
DeclaresLower(i) ==
    /\ http_log[i].op = "download_artifact"
    /\ ~http_log[i].raised
    /\ Strip(http_log[i].content) # <<>>
    /\ VersionLT(Version(Strip(http_log[i].content)),
                 Version(appliance_version))

C2_StopsAtLowerVersion ==
    \A i \in 1..Len(http_log) :
        DeclaresLower(i) =>
            /\ i = Len(http_log)
            /\ pc \notin SelectionPcs
            /\ \A b \in BuildSet :
                  Position(b) > Position(http_log[i].build) =>
                      /\ b \notin eligible_build_numbers
                      /\ \A j \in 1..Len(http_log) : http_log[j].build # b

\* The loop stopped at a lower version with an older build left unvisited.
C2_Witness ==
    /\ pc = "end_loop"
    /\ idx < Len(build_numbers)
    /\ http_log # <<>>
    /\ DeclaresLower(Len(http_log))

\* ------------------------------------------------------------------------
\* C3: every download command fetches the archive of its own build: the
\* URL is made of the build number and of the relativePath of
\* coverage-results.tgz in that build's artifact list.
\* ------------------------------------------------------------------------
OwnCoveragePath(b) ==
    LET i == CHOOSE k \in Answers("get_build_info", b) : TRUE
    IN  group_list_dict_by(http_log[i].artifacts)
            ["coverage-results.tgz"].relativePath

C3_DownloadsOwnArchive ==
    \A i \in 1..Len(remote_log) :
        remote_log[i].op = "curl" =>
            remote_log[i].url =
                jenkins_artifact_url(jenkins_user, jenkins_token, JenkinsUrl,
                                     JobName, remote_log[i].build,
                                     OwnCoveragePath(remote_log[i].build))

\* ------------------------------------------------------------------------
\* C4: a failing remote command is the last step of the run: an exception
\* is raised and nothing is executed after it.
\* ------------------------------------------------------------------------
RemoteCommands ==
    {"mkdir", "curl", "extract", "coverage_merger", "ln", "tar",
     "scanner_mkdir", "scanner_wget", "scanner_unzip", "scanner_mv",
     "scanner_conf", "run_scanner"}

C4_RemoteFailureIsFatal ==
    \A i \in 1..Len(remote_log) :
        (remote_log[i].op \in RemoteCommands /\ remote_log[i].failed) =>
            (i = Len(remote_log) /\ pc = "raised")

\* ------------------------------------------------------------------------
\* C5: with an empty build list main raises; with an empty eligible set
\* after the loop main raises; in both cases nothing runs afterwards.
\* ------------------------------------------------------------------------
JobInfoReturned ==
    \E i \in 1..Len(http_log) :
        http_log[i].op = "get_job_info" /\ ~http_log[i].raised

C5_EmptyRaises ==
    /\ (JobInfoReturned /\ build_numbers = <<>>) =>
           /\ pc = "raised"
           /\ err = "no-builds"
           /\ Len(http_log) = 1
           /\ remote_log = <<>>
    /\ (LoopEnded /\ eligible_build_numbers = {}) =>
           /\ pc = "raised"
           /\ err = "no-eligible-builds"
           /\ remote_log = <<>>

\* Raised for an empty eligible set after the loop's early stop.
C5_Witness ==
    /\ pc = "raised"
    /\ err = "no-eligible-builds"
    /\ idx <= Len(build_numbers)

\* ------------------------------------------------------------------------
\* C6: in a run that reaches its end the steps are, in this order: the
\* preparation, then per eligible build in ascending order its download
\* immediately followed by its extract, then merge, symlink, packaging,
\* copy, local decompression, and last the scanner steps.
\* ------------------------------------------------------------------------
PreparationOps ==
    <<"evmserverd_stop", "install_simplecov", "upload_coverage_merger",
      "mkdir">>

FinalOps ==
    <<"coverage_merger", "ln", "tar", "get_file", "local_tar",
      "scanner_mkdir", "scanner_wget", "scanner_unzip", "scanner_mv",
      "scanner_conf", "put_file", "run_scanner">>

C6_StepOrder ==
    pc = "done" =>
        LET n == Cardinality(eligible_build_numbers)
            first == Len(PreparationOps)
            last == first + 2 * n
        IN  /\ Len(remote_log) = last + Len(FinalOps)
            /\ \A i \in 1..first : remote_log[i].op = PreparationOps[i]
            /\ \A k \in 1..n :
                  /\ remote_log[first + 2 * k - 1].op = "curl"
                  /\ remote_log[first + 2 * k].op = "extract"
                  /\ remote_log[first + 2 * k - 1].build
                        \in eligible_build_numbers
                  /\ remote_log[first + 2 * k].build =
                        remote_log[first + 2 * k - 1].build
                  /\ k < n => remote_log[first + 2 * k - 1].build
                                < remote_log[first + 2 * k + 1].build
            /\ \A j \in 1..Len(FinalOps) :
                  remote_log[last + j].op = FinalOps[j]

\* A finished run over two eligible builds.
C6_Witness ==
    /\ pc = "done"
    /\ Cardinality(eligible_build_numbers) = 2

\* ------------------------------------------------------------------------
\* C7: check_artifact answers true exactly for the status codes below 300
\* (the 2xx answers); a redirect (3xx) answer gives false.
\* ------------------------------------------------------------------------
C7_ExistsBelow300 ==
    pc = "check_artifact_returned" =>
        /\ in_status \in MinStatus..299 => out_exists
        /\ in_status \in 300..MaxStatus => ~out_exists

\* A redirect answer, reported as not existing.
C7_Witness ==
    /\ pc = "check_artifact_returned"
    /\ in_status \in 300..399
    /\ ~out_exists

\* C7 as stated: true exactly for the 2xx and 3xx status codes.
C7_ExistsSuccessOrRedirect ==
    pc = "check_artifact_returned" =>
        (out_exists <=> in_status \in 200..399)

\* ------------------------------------------------------------------------
\* C8: no retries: no CI query is issued twice for a build, no remote step
\* is issued twice (per build for download and extract), and a failing
\* step is the last step of the run.
\* ------------------------------------------------------------------------
NoRepeatedStep ==
    /\ \A i, j \in 1..Len(http_log) :
          (http_log[i].op = http_log[j].op
           /\ http_log[i].build = http_log[j].build) => i = j
    /\ \A i, j \in 1..Len(remote_log) :
          (remote_log[i].op = remote_log[j].op
           /\ remote_log[i].build = remote_log[j].build) => i = j

C8_NoRetryFirstFailureAborts ==
    /\ NoRepeatedStep
    /\ \A i \in 1..Len(http_log) :
          http_log[i].raised =>
              (i = Len(http_log) /\ remote_log = <<>> /\ pc = "raised")
    /\ \A i \in 1..Len(remote_log) :
          remote_log[i].failed => (i = Len(remote_log) /\ pc = "raised")

\* ------------------------------------------------------------------------
\* C9: gen_project_key gives name_major_minor_ruby_coverage when the
\* version starts with digits, a dot and digits (major and minor being
\* those two runs of digits), and raises for every other version.
\* ------------------------------------------------------------------------
\* v starts with m digits, a dot and n digits, both runs being complete.
StartsWith(v, m, n) ==
    /\ m >= 1
    /\ n >= 1
    /\ Len(v) >= m + 1 + n
    /\ \A i \in 1..m : v[i] \in Digits
    /\ v[m + 1] = "."
    /\ \A i \in (m + 2)..(m + 1 + n) : v[i] \in Digits
    /\ Len(v) > m + 1 + n => v[m + 2 + n] \notin Digits

C9_ProjectKey ==
    pc = "gen_project_key_returned" =>
        LET v == in_version
            WellFormed == \E m, n \in 1..Len(v) : StartsWith(v, m, n)
        IN  /\ ~WellFormed => out_key.raised
            /\ \A m, n \in 1..Len(v) :
                  StartsWith(v, m, n) =>
                      /\ ~out_key.raised
                      /\ out_key.key =
                            in_name \o <<"_">> \o SubSeq(v, 1, m) \o <<"_">>
                            \o SubSeq(v, m + 2, m + 1 + n)
                            \o <<"_ruby_coverage">>

\* The docstring's example: CFME and 5.9.0.21 give CFME_5_9_ruby_coverage.
C9_Witness ==
    /\ pc = "gen_project_key_returned"
    /\ in_name = <<"CFME">>
    /\ in_version = DocVersion
    /\ out_key = [raised |-> FALSE,
                  key |-> <<"CFME", "_", "5", "_", "9", "_ruby_coverage">>]

\* ------------------------------------------------------------------------
\* C10: nothing is done on the appliance before the selection loop has
\* ended with a non-empty eligible set; a run that raised for missing
\* credentials, an empty build list or an empty eligible set has done
\* nothing there.
\* ------------------------------------------------------------------------
C10_ApplianceUntouched ==
    /\ remote_log # <<>> =>
           /\ LoopEnded
           /\ eligible_build_numbers # {}
    /\ (pc = "raised"
        /\ err \in {"credential-missing", "no-builds", "no-eligible-builds"})
           => remote_log = <<>>

\* The first appliance-side step, issued after a successful selection.
C10_Witness ==
    /\ Len(remote_log) = 1
    /\ remote_log[1].op = "evmserverd_stop"
    /\ eligible_build_numbers # {}

\* ------------------------------------------------------------------------
\* C11: only a build declaring a non-empty version strictly lower than the
\* target ends the selection loop early.  When the loop has ended, every
\* build listed up to the first such build (every build, when there is
\* none) has been visited, whatever the reason the builds before it were
\* skipped for, and each of them meeting the eligibility conditions is in
\* the eligible set.
\* ------------------------------------------------------------------------
SelectionOver == pc = "end_loop" \/ LoopEnded

Eligible(b) ==
    /\ HasArtifact(b, "appliance_version")
    /\ DeclaresVersion(b, appliance_version)
    /\ HasArtifact(b, "coverage-results.tgz")
    /\ ArtifactChecked(b)

C11_OnlyLowerVersionEndsLoop ==
    SelectionOver =>
        LET lower == {i \in 1..Len(http_log) : DeclaresLower(i)}
            reach == IF lower = {} THEN Len(build_numbers)
                     ELSE Position(http_log[CHOOSE i \in lower : TRUE].build)
        IN  /\ Cardinality(lower) <= 1
            /\ \A k \in 1..reach :
                  /\ Visited(build_numbers[k])
                  /\ Eligible(build_numbers[k]) =>
                        build_numbers[k] \in eligible_build_numbers

\* The newest build declares a higher version and is skipped after its
\* archive was checked; the older build behind it is eligible.
C11_Witness ==
    /\ SelectionOver
    /\ Len(build_numbers) = 2
    /\ eligible_build_numbers = {build_numbers[2]}
    /\ ArtifactChecked(build_numbers[1])
    /\ ~DeclaresVersion(build_numbers[1], appliance_version)

====
